---- MODULE Spec2Model ----
(***************************************************************************)
(* Model of the feedback tagging workflow (auto_tag/lambdas).              *)
(*                                                                         *)
(* Spec          one invocation of invoke_bedrock_and_save's               *)
(*               lambda_handler over a batch of feedback items: the        *)
(*               classification of each item by get_tag_from_model, the    *)
(*               reconciliation of the candidate tags against the category *)
(*               list, and save_data_to_rds_in_batch.                      *)
(* SpecClassify  get_tag_from_model on its own, over longer answers.       *)
(* SpecTimeout   Spec with the function timeout stopping the handler.      *)
(* SpecNotify    prepare_notification's lambda_handler.                    *)
(* SpecCategory  concurrent category uploads of mass_update.               *)
(* SpecPost      post_processing's lambda_handler.                         *)
(* SpecMassUpdate  one invocation of mass_update's lambda_handler over a   *)
(*               correction file or a category file.                       *)
(* SpecBatchUpload  the batch handler with a category upload committing    *)
(*               while it runs.                                            *)
(*                                                                         *)
(* Text is modelled as a sequence of one-character strings, so that the    *)
(* slicing, splitting, trimming and joining of the code are computed.      *)
(***************************************************************************)
EXTENDS Integers, Sequences, FiniteSets, TLC

\* ------------------------------------------------------------------ bounds
MaxItems == 2      \* most items in one batch (event["Items"])
MaxTags == 2       \* most comma-separated pieces in one model response
MaxAnswerTags == 4 \* most pieces of an answer given to get_tag_from_model alone
MaxTotal == 5      \* most items in a summary given to prepare_notification
MaxUploads == 2    \* most category uploads of mass_update running at once
MaxJson == 2       \* most entries of an uploaded category file
MaxRows == 2       \* most rows of an uploaded feedback correction file
MaxBatches == 2    \* most per-batch summaries given to post_processing
MaxCount == 2      \* largest total of one per-batch summary

\* --------------------------------------------------------------- constants
TAG_UNKNOWN == <<"u","n","k","n","o","w","n">>

\* Names used in the runs: an allowed category, a category marked deleted,
\* and a tag the model made up.
Shipping == <<"S","h">>
Retired == <<"O","l">>
Weird == <<"W","e">>

EmptyStr == <<>>
Whitespace == {" ", "\n"}

\* Python values that an item field can hold: a str or something else.
Str(s) == [type |-> "str", val |-> s]
NonStr == [type |-> "int", val |-> <<"5">>]

\* ------------------------------------------------------------ text helpers
Min(a, b) == IF a < b THEN a ELSE b
Max(a, b) == IF a > b THEN a ELSE b

\* s[lo:hi] of Python for lo >= 0 and hi < 0 (here text[5:-6]).
Slice(s, lo, hi) ==
    LET n == Len(s)
        first == Min(lo, n)
        last == Max(n + hi, 0)
    IN IF first >= last THEN <<>> ELSE SubSeq(s, first + 1, last)

RECURSIVE SplitFrom(_, _, _)
SplitFrom(s, i, cur) ==
    IF i > Len(s) THEN <<cur>>
    ELSE IF s[i] = "," THEN <<cur>> \o SplitFrom(s, i + 1, <<>>)
    ELSE SplitFrom(s, i + 1, Append(cur, s[i]))

\* str.split(","): the pieces between commas; "" gives one empty piece.
Split(s) == SplitFrom(s, 1, <<>>)

RECURSIVE LStrip(_)
LStrip(s) == IF s # <<>> /\ Head(s) \in Whitespace THEN LStrip(Tail(s)) ELSE s

RECURSIVE RStrip(_)
RStrip(s) ==
    IF s # <<>> /\ s[Len(s)] \in Whitespace THEN RStrip(SubSeq(s, 1, Len(s) - 1)) ELSE s

\* str.strip()
Strip(s) == RStrip(LStrip(s))

RECURSIVE Join(_)
\* ",".join(list)
Join(list) ==
    IF list = <<>> THEN <<>>
    ELSE IF Len(list) = 1 THEN list[1]
    ELSE list[1] \o <<",">> \o Join(Tail(list))

RECURSIVE MapStrip(_)
\* [tag.strip() for tag in tags if tag.strip()]
MapStrip(tags) ==
    IF tags = <<>> THEN <<>>
    ELSE LET t == Strip(Head(tags))
         IN IF t # <<>> THEN <<t>> \o MapStrip(Tail(tags)) ELSE MapStrip(Tail(tags))

\* list membership: x in list
InList(x, list) == \E i \in 1..Len(list) : list[i] = x

\* dict.get(key, default)
Get(d, key, default) == IF key \in DOMAIN d THEN d[key] ELSE default

\* All sequences over S of length 0..n
SeqsUpTo(S, n) == UNION {[1..k -> S] : k \in 0..n}

\* ------------------------------------------------------------- environment
\* CHAT_MODEL of the deployment; "" stands for an unset or empty variable.
ChatModels == {"", "amazon.titan-text-express-v1", "anthropic.claude-v2",
               "anthropic.claude-3-sonnet-20240229-v1:0"}
\* "anthropic" in chat_model, "claude-3" in chat_model
HasAnthropic(m) == m \in {"anthropic.claude-v2", "anthropic.claude-3-sonnet-20240229-v1:0"}
HasClaude3(m) == m \in {"anthropic.claude-3-sonnet-20240229-v1:0"}

TAG_OPEN == <<"<","t","a","g",">">>
TAG_CLOSE == <<"<","/","t","a","g",">">>
Wrap(s) == TAG_OPEN \o s \o TAG_CLOSE

RECURSIVE JoinSpaced(_)
JoinSpaced(list) ==
    IF list = <<>> THEN <<>>
    ELSE IF Len(list) = 1 THEN <<" ">> \o list[1]
    ELSE <<" ">> \o list[1] \o <<",">> \o JoinSpaced(Tail(list))

\* What the model may answer: up to MaxTags names between the delimiters,
\* with or without blanks, or an answer without the delimiters.
CandNames == {Shipping, Weird, TAG_UNKNOWN}
CandLists == SeqsUpTo(CandNames, MaxTags)
ResponseTexts ==
    {Wrap(Join(l)) : l \in CandLists}
        \cup {Wrap(JoinSpaced(l)) : l \in CandLists}
        \cup {TAG_UNKNOWN, Shipping}

\* The JSON body the service returns: the messages interface answers with a
\* content list (which may be empty), the text-completion interface with a
\* completion string.
InvokeModelResponses(m) ==
    IF HasClaude3(m)
    THEN {[content |-> <<[text |-> t]>>] : t \in ResponseTexts} \cup {[content |-> <<>>]}
    ELSE {[completion |-> t] : t \in ResponseTexts}

\* Items of a batch: feedback missing, empty, not a string, or a text.
FeedbackText == <<"o","k">>
BadDate == <<"?">>
ItemValues == {[title |-> Str(<<"t">>)],
               [title |-> Str(<<"t">>), feedback |-> Str(EmptyStr)],
               [title |-> Str(<<"t">>), feedback |-> NonStr],
               [title |-> Str(<<"t">>), feedback |-> Str(FeedbackText)],
               [title |-> Str(<<"t">>), feedback |-> Str(FeedbackText), date |-> Str(BadDate)]}

\* Outcome of one similarity lookup: the nearest row under the threshold,
\* no row, or an exception of the embedding call or of the query.
LookupOutcomes(table) ==
    {[kind |-> "row", category_name |-> table[i].category_name] : i \in 1..Len(table)}
        \cup {[kind |-> k, category_name |-> <<>>] : k \in {"norow", "embed_error", "db_error"}}

\* ------------------------------------------------------------ the program
VARIABLES
    chat_model,         \* os.environ CHAT_MODEL
    category_table,     \* customer_feedback_category rows
    customer_feedback,  \* committed rows of customer_feedback
    feedback_tags,      \* committed rows of feedback_tags
    next_id,            \* the SERIAL sequence of customer_feedback.id
    tx,                 \* rows written by the open transaction, not yet committed
    tx_aborted,         \* the open transaction failed a statement
    event,              \* the event of the invocation
    pc,                 \* position of lambda_handler
    categories,         \* list loaded by load_default_categories
    sub_status,         \* total / success / failure
    data,               \* records queued for persistence
    idx,                \* index of the item of the current iteration
    iter,               \* locals of the current iteration of the item loop
    raised,             \* number of iterations that ended in the except branch
    saved,              \* position in data of save_data_to_rds_in_batch
    save_result,        \* what save_data_to_rds_in_batch returned
    returned,           \* what lambda_handler returned
    mu,                 \* the running mass_update category uploads
    pn,                 \* event and result of prepare_notification
    pp,                 \* event and result of post_processing
    label_correction    \* customer_feedback.label_correction where it is not NULL

vars == <<pp, label_correction, mu, pn, chat_model, category_table, customer_feedback, feedback_tags, next_id, tx,
          tx_aborted, event, pc, categories, sub_status, data, idx, iter, raised,
          saved, save_result, returned>>

\* The text the model wrote, in either shape of the response body.
ResponseText(response) ==
    IF "content" \in DOMAIN response
    THEN IF response.content = <<>> THEN <<>> ELSE response.content[1].text
    ELSE response.completion

\* parse_content's pattern <tag>(.*?)</tag> finds a match in the text
HasTagPair(text) ==
    \E i \in 1..Len(text), j \in 1..Len(text) :
        /\ i + Len(TAG_OPEN) <= j
        /\ j + Len(TAG_CLOSE) - 1 <= Len(text)
        /\ SubSeq(text, i, i + Len(TAG_OPEN) - 1) = TAG_OPEN
        /\ SubSeq(text, j, j + Len(TAG_CLOSE) - 1) = TAG_CLOSE

\* The answers of the model that hold the delimiter pair
DelimitedTexts == {t \in ResponseTexts : HasTagPair(t)}

\* load_default_categories: names of the rows that are not deleted
RECURSIVE load_default_categories(_)
load_default_categories(table) ==
    IF table = <<>> THEN <<>>
    ELSE IF ~Head(table).deleted
         THEN <<Head(table).category_name>> \o load_default_categories(Tail(table))
         ELSE load_default_categories(Tail(table))

\* Variant that tests the model family only after the request was sent.
get_tag_from_model_late_check(model, response) ==
    IF model = "" THEN
        [raised |-> TRUE, error |-> "ValueError", invoked |-> 0, tags |-> <<>>]
    ELSE IF ~HasAnthropic(model) THEN
        [raised |-> TRUE, error |-> "ValueError", invoked |-> 1, tags |-> <<>>]
    ELSE IF "content" \notin DOMAIN response THEN
        [raised |-> TRUE, error |-> "KeyError", invoked |-> 1, tags |-> <<>>]
    ELSE IF response.content = <<>> THEN
        [raised |-> TRUE, error |-> "IndexError", invoked |-> 1, tags |-> <<>>]
    ELSE
        [raised |-> FALSE, error |-> "", invoked |-> 1,
         tags |-> MapStrip(Split(Slice(response.content[1].text, 5, -6)))]

\* Variant that sends the request a second time when the body cannot be read.
get_tag_from_model_retry(model, response) ==
    IF model = "" THEN
        [raised |-> TRUE, error |-> "ValueError", invoked |-> 0, tags |-> <<>>]
    ELSE IF ~HasAnthropic(model) THEN
        [raised |-> TRUE, error |-> "ValueError", invoked |-> 0, tags |-> <<>>]
    ELSE IF "content" \notin DOMAIN response THEN
        [raised |-> TRUE, error |-> "KeyError", invoked |-> 2, tags |-> <<>>]
    ELSE IF response.content = <<>> THEN
        [raised |-> TRUE, error |-> "IndexError", invoked |-> 2, tags |-> <<>>]
    ELSE
        [raised |-> FALSE, error |-> "", invoked |-> 1,
         tags |-> MapStrip(Split(Slice(response.content[1].text, 5, -6)))]

\* get_tag_from_model: the candidate tags, or the exception it raises;
\* invoked counts the requests sent to the text-generation service.
get_tag_from_model(model, response) ==
    IF model = "" THEN
        [raised |-> TRUE, error |-> "ValueError", invoked |-> 0, tags |-> <<>>]
    ELSE IF ~HasAnthropic(model) THEN
        [raised |-> TRUE, error |-> "ValueError", invoked |-> 0, tags |-> <<>>]
    ELSE IF "content" \notin DOMAIN response THEN
        [raised |-> TRUE, error |-> "KeyError", invoked |-> 1, tags |-> <<>>]
    ELSE IF response.content = <<>> THEN
        [raised |-> TRUE, error |-> "IndexError", invoked |-> 1, tags |-> <<>>]
    ELSE
        [raised |-> FALSE, error |-> "", invoked |-> 1,
         tags |-> MapStrip(Split(Slice(response.content[1].text, 5, -6)))]

\* Variant without the try/except of lines 297-323: the exception of the
\* embedding call or of the query leaves the function.
search_most_similar_item_from_db_uncaught(outcome) ==
    IF outcome.kind = "row"
    THEN [raised |-> FALSE, value |-> outcome.category_name]
    ELSE IF outcome.kind = "norow"
    THEN [raised |-> FALSE, value |-> TAG_UNKNOWN]
    ELSE [raised |-> TRUE, value |-> TAG_UNKNOWN]

\* search_most_similar_item_from_db: the category name of the row found, or
\* TAG_UNKNOWN when no row is found or the lookup raised inside.
search_most_similar_item_from_db(outcome) ==
    IF outcome.kind = "row"
    THEN [raised |-> FALSE, value |-> outcome.category_name]
    ELSE [raised |-> FALSE, value |-> TAG_UNKNOWN]

\* Variant that appends whatever the lookup returned, TAG_UNKNOWN included.
UseLookupResult_append(updated_tags, value) == Append(updated_tags, value)

\* line 220: the value the lookup returned is bound to updated_tag and not used
UseLookupResult(updated_tags, value) == updated_tags

\* Variant that forgets the test against TAG_UNKNOWN.
NeedsLookup_no_sentinel(tag, cats) == ~InList(tag, cats)

\* line 219: the tag needs a lookup
NeedsLookup(tag, cats) == ~InList(tag, cats) /\ tag # TAG_UNKNOWN

\* Variant that searches for the tag that triggered the lookup.
SearchText_trigger(tags, i) == tags[i]

\* line 220: search_most_similar_item_from_db(cursor, tags[0])
SearchText(tags, i) == tags[1]

\* lines 217-222: the loop over the candidate tags, from position i on.
\* lk[i] is the outcome of the lookup made for position i, if one is made.
RECURSIVE ReconcileFrom(_, _, _, _, _)
ReconcileFrom(tags, cats, lk, i, acc) ==
    IF i > Len(tags) THEN acc
    ELSE IF NeedsLookup(tags[i], cats) THEN
        LET r == search_most_similar_item_from_db(lk[i])
            call == [text |-> SearchText(tags, i), outcome |-> lk[i]]
        IN IF r.raised
           THEN [acc EXCEPT !.raised = TRUE, !.lookups = Append(@, call)]
           ELSE ReconcileFrom(tags, cats, lk, i + 1,
                    [acc EXCEPT !.lookups = Append(@, call),
                                !.updated_tags = UseLookupResult(@, r.value)])
    ELSE IF InList(tags[i], cats) THEN
        ReconcileFrom(tags, cats, lk, i + 1,
            [acc EXCEPT !.updated_tags = Append(@, tags[i])])
    ELSE ReconcileFrom(tags, cats, lk, i + 1, acc)

Reconcile(tags, cats, lk) ==
    ReconcileFrom(tags, cats, lk, 1,
        [updated_tags |-> <<>>, lookups |-> <<>>, raised |-> FALSE])

\* Variant that tests only that the value is not empty.
IsValidFeedback_no_type(v) == v.val # EmptyStr

\* line 187: isinstance(feedback_comment, str) and feedback_comment
IsValidFeedback(v) == v.type = "str" /\ v.val # EmptyStr

\* lines 195-201: dateutil's parser.parse raises on a text that is no date
DateRaises(item) == "date" \in DOMAIN item /\ item.date.val = BadDate

\* Variant whose except branch counts nothing.
CountFailure_lost(st) == st

\* lines 228 and 231
CountSuccess(st) == [st EXCEPT !.success = @ + 1]
CountFailure(st) == [st EXCEPT !.failure = @ + 1]

\* Variant that sets failure and leaves success as it was.
AfterSave_keeps_success(st, success) ==
    IF ~success THEN [st EXCEPT !.failure = st.total] ELSE st

\* lines 237-239
AfterSave(st, success) ==
    IF ~success THEN [st EXCEPT !.failure = st.total, !.success = 0] ELSE st

NoIter == [error |-> "", invoked |-> 0, delimited |-> FALSE, tags |-> <<>>,
           updated_tags |-> <<>>, lookups |-> <<>>, done |-> FALSE]
NoTx == [feedback |-> {}, tags |-> {}]
NotReturned == [kind |-> "running"]
\* No category upload is running; prepare_notification has not been called.
NoUploads == [procs |-> <<>>, next_id |-> 0]
NoNotification == [event |-> [kind |-> "none"], threshold |-> [num |-> 2, den |-> 10],
                   result |-> [kind |-> "none"]]
NoneValue == [kind |-> "None"]
\* post_processing has not been called.
NoPost == [event |-> [kind |-> "none"], result |-> [kind |-> "none"]]

\* One batch of an earlier execution is already stored.
InitFeedback == {[id |-> 1, execution_id |-> "exec-0", ref_id |-> 1]}
InitTags == {[feedback_id |-> 1, tag |-> Shipping, n |-> 1]}
\* The category table: an allowed category and a deleted one, or a table
\* whose owner made "unknown" itself a category.
InitCategoryTables ==
    {<<[id |-> 1, category_name |-> Shipping, deleted |-> FALSE],
       [id |-> 2, category_name |-> Retired, deleted |-> TRUE]>>,
     <<[id |-> 1, category_name |-> TAG_UNKNOWN, deleted |-> FALSE]>>}

Init ==
    /\ mu = NoUploads
    /\ pn = NoNotification
    /\ pp = NoPost
    /\ label_correction = {}
    /\ chat_model \in ChatModels
    /\ category_table \in InitCategoryTables
    /\ customer_feedback = InitFeedback
    /\ feedback_tags = InitTags
    /\ next_id = 2
    /\ tx = NoTx
    /\ tx_aborted = FALSE
    /\ event \in [Items : SeqsUpTo(ItemValues, MaxItems), ExecutionName : {"exec-1"}]
    /\ pc = "start"
    /\ categories = <<>>
    /\ sub_status = [total |-> 0, success |-> 0, failure |-> 0]
    /\ data = <<>>
    /\ idx = 0
    /\ iter = NoIter
    /\ raised = 0
    /\ saved = 0
    /\ save_result = "none"
    /\ returned = NotReturned

\* lines 162-182: the counters, the category list, the empty queue
Start ==
    /\ pc = "start"
    /\ sub_status' = [total |-> Len(event.Items), success |-> 0, failure |-> 0]
    /\ categories' = load_default_categories(category_table)
    /\ data' = <<>>
    /\ idx' = 1
    /\ pc' = "loop"
    /\ UNCHANGED <<pp, label_correction, mu, pn, chat_model, category_table, customer_feedback, feedback_tags, next_id,
                   tx, tx_aborted, event, iter, raised, saved, save_result, returned>>

\* line 184: the next item, with the locals of the iteration not yet bound
NextItem ==
    /\ pc = "loop"
    /\ idx <= Len(event.Items)
    /\ iter' = NoIter
    /\ pc' = "body"
    /\ UNCHANGED <<pp, label_correction, mu, pn, chat_model, category_table, customer_feedback, feedback_tags, next_id,
                   tx, tx_aborted, event, categories, sub_status, data, idx, raised,
                   saved, save_result, returned>>

\* The outcomes of the lookups of one item: once a query has failed, the
\* transaction of the connection is aborted and every later query fails too.
LookupPositions(tags, cats) == {i \in 1..Len(tags) : NeedsLookup(tags[i], cats)}
LookupChoices(tags, cats, table, aborted) ==
    {lk \in [LookupPositions(tags, cats) -> LookupOutcomes(table)] :
        \A i \in DOMAIN lk :
            (aborted \/ \E j \in DOMAIN lk : j < i /\ lk[j].kind = "db_error")
                => lk[i].kind \in {"embed_error", "db_error"}}

AbortedBy(lookups) == \E k \in 1..Len(lookups) : lookups[k].outcome.kind = "db_error"

\* Variant that reads the category table again for every item.
ListForItem_reload(cats, table) == load_default_categories(table)

\* lines 190 and 219-221: the list loaded at line 178 is the one every item
\* is prompted and reconciled with; the loop never loads it again
ListForItem(cats, table) == cats

\* lines 229-231: the except branch of the iteration
ItemFails(it) ==
    /\ iter' = [it EXCEPT !.done = TRUE]
    /\ sub_status' = CountFailure(sub_status)
    /\ raised' = raised + 1
    /\ data' = data

\* lines 203-228: the record is queued and the item counted
ItemSucceeds(it) ==
    /\ iter' = [it EXCEPT !.done = TRUE]
    /\ data' = Append(data, [feedback |-> Get(event.Items[idx], "feedback", Str(EmptyStr)).val,
                             tags |-> Join(it.updated_tags),
                             execution_id |-> event.ExecutionName,
                             ref_id |-> idx])
    /\ sub_status' = CountSuccess(sub_status)
    /\ raised' = raised

\* lines 185-231: one iteration of the item loop
ProcessItem ==
    /\ pc = "body"
    /\ LET item == event.Items[idx]
           feedback_comment == Get(item, "feedback", Str(EmptyStr))
       IN IF ~IsValidFeedback(feedback_comment)
          THEN /\ ItemFails([NoIter EXCEPT !.error = "ValueError"])
               /\ tx_aborted' = tx_aborted
          ELSE \E response \in InvokeModelResponses(chat_model) :
               LET g == get_tag_from_model(chat_model, response)
                   it1 == [NoIter EXCEPT !.error = g.error, !.invoked = g.invoked,
                                         !.delimited = ResponseText(response) \in DelimitedTexts,
                                         !.tags = g.tags]
               IN IF g.raised
                  THEN /\ ItemFails(it1)
                       /\ tx_aborted' = tx_aborted
                  ELSE IF DateRaises(item)
                  THEN /\ ItemFails([it1 EXCEPT !.error = "ParserError"])
                       /\ tx_aborted' = tx_aborted
                  ELSE \E lk \in LookupChoices(g.tags, ListForItem(categories, category_table),
                                                 category_table, tx_aborted) :
                       LET rec == Reconcile(g.tags, ListForItem(categories, category_table), lk)
                           it2 == [it1 EXCEPT !.updated_tags = rec.updated_tags,
                                              !.lookups = rec.lookups]
                       IN /\ tx_aborted' = (tx_aborted \/ AbortedBy(rec.lookups))
                          /\ IF rec.raised
                             THEN ItemFails([it2 EXCEPT !.error = "LookupError"])
                             ELSE ItemSucceeds(it2)
    /\ idx' = idx + 1
    /\ pc' = "loop"
    /\ UNCHANGED <<pp, label_correction, mu, pn, chat_model, category_table, customer_feedback, feedback_tags, next_id,
                   tx, event, categories, saved, save_result, returned>>

\* lines 233-235: the loop is over; persist if something was queued
LoopExit ==
    /\ pc = "loop"
    /\ idx > Len(event.Items)
    /\ iter' = NoIter
    /\ IF Len(data) > 0
       THEN pc' = "save" /\ saved' = 1
       ELSE pc' = "exit" /\ saved' = saved
    /\ UNCHANGED <<pp, label_correction, mu, pn, chat_model, category_table, customer_feedback, feedback_tags, next_id,
                   tx, tx_aborted, event, categories, sub_status, data, idx, raised,
                   save_result, returned>>

\* lines 257-264: one feedback_tags row for every piece of item["tags"];
\* n tells apart the rows of one feedback (the table has no unique key)
TagRows(feedback_id, tags) ==
    LET pieces == Split(tags)
    IN {[feedback_id |-> feedback_id, tag |-> pieces[k], n |-> k] : k \in 1..Len(pieces)}

\* Variant that writes no feedback row.
FeedbackRows_skip(id, item) == {}

\* lines 245-250: the customer_feedback row of one queued record
FeedbackRows(id, item) ==
    {[id |-> id, execution_id |-> item.execution_id, ref_id |-> item.ref_id]}

\* lines 245-264: the inserts of one queued record, in the open transaction
SaveInsert ==
    /\ pc = "save"
    /\ ~tx_aborted
    /\ LET item == data[saved]
       IN tx' = [feedback |-> FeedbackRows(next_id, item),
                 tags |-> TagRows(next_id, item.tags)]
    /\ next_id' = next_id + 1
    /\ pc' = "commit"
    /\ UNCHANGED <<pp, label_correction, mu, pn, chat_model, category_table, customer_feedback, feedback_tags,
                   tx_aborted, event, categories, sub_status, data, idx, iter, raised,
                   saved, save_result, returned>>

\* lines 266-267: commit after the record; return True after the last one
SaveCommit ==
    /\ pc = "commit"
    /\ customer_feedback' = customer_feedback \cup tx.feedback
    /\ feedback_tags' = feedback_tags \cup tx.tags
    /\ tx' = NoTx
    /\ saved' = saved + 1
    /\ IF saved + 1 > Len(data)
       THEN /\ save_result' = "True"
            /\ sub_status' = AfterSave(sub_status, TRUE)
            /\ pc' = "exit"
       ELSE /\ save_result' = save_result
            /\ sub_status' = sub_status
            /\ pc' = "save"
    /\ UNCHANGED <<pp, label_correction, mu, pn, chat_model, category_table, next_id, tx_aborted, event, categories,
                   data, idx, iter, raised, returned>>

\* lines 268-271 and 237-239: a statement or the commit raised; roll back,
\* return False, and count the whole batch as failed
SaveFail ==
    /\ pc \in {"save", "commit"}
    /\ tx' = NoTx
    /\ tx_aborted' = FALSE
    /\ save_result' = "False"
    /\ sub_status' = AfterSave(sub_status, FALSE)
    /\ pc' = "exit"
    /\ UNCHANGED <<pp, label_correction, mu, pn, chat_model, category_table, customer_feedback, feedback_tags, next_id,
                   event, categories, data, idx, iter, raised, saved, returned>>

\* the value lambda_handler hands back: the function ends without a return
ReturnValue(st) == NoneValue

\* line 239: the with blocks close and the handler ends
Return ==
    /\ pc = "exit"
    /\ returned' = ReturnValue(sub_status)
    /\ tx_aborted' = FALSE
    /\ pc' = "done"
    /\ UNCHANGED <<pp, label_correction, mu, pn, chat_model, category_table, customer_feedback, feedback_tags, next_id,
                   tx, event, categories, sub_status, data, idx, iter, raised, saved,
                   save_result>>

Next ==
    \/ Start
    \/ NextItem
    \/ ProcessItem
    \/ LoopExit
    \/ SaveInsert
    \/ SaveCommit
    \/ SaveFail
    \/ Return

Spec == Init /\ [][Next]_vars

TypeOK ==
    /\ pc \in {"start", "loop", "body", "save", "commit", "exit", "done",
               "classify", "classified", "off", "abandoned"}
    /\ sub_status.total \in 0..MaxItems
    /\ sub_status.success \in 0..MaxItems
    /\ sub_status.failure \in 0..MaxItems
    /\ Len(data) <= MaxItems

\* ------------------------------------------- get_tag_from_model on its own
\* Whatever the model may write between the delimiters: names, names with
\* blanks around them, empty and blank pieces, in any number up to
\* MaxAnswerTags (the prompt asks for up to 3; the model is free to ignore it).
AnswerPieces == {Shipping, Weird, TAG_UNKNOWN, <<" ">> \o Shipping \o <<" ">>,
                 EmptyStr, <<" ">>}
LongAnswers == {Wrap(Join(l)) : l \in SeqsUpTo(AnswerPieces, MaxAnswerTags)}
AnswerResponses(m) ==
    IF HasClaude3(m)
    THEN {[content |-> <<[text |-> t]>>] : t \in LongAnswers}
    ELSE {[completion |-> t] : t \in LongAnswers}

\* A call with a non-empty feedback body and the loaded category list.
InitClassify ==
    /\ mu = NoUploads
    /\ pn = NoNotification
    /\ pp = NoPost
    /\ label_correction = {}
    /\ chat_model \in ChatModels
    /\ category_table \in InitCategoryTables
    /\ customer_feedback = InitFeedback
    /\ feedback_tags = InitTags
    /\ next_id = 2
    /\ tx = NoTx
    /\ tx_aborted = FALSE
    /\ event = [Items |-> <<[title |-> Str(<<"t">>), feedback |-> Str(FeedbackText)]>>,
                ExecutionName |-> "exec-1"]
    /\ pc = "classify"
    /\ categories = load_default_categories(category_table)
    /\ sub_status = [total |-> 1, success |-> 0, failure |-> 0]
    /\ data = <<>>
    /\ idx = 1
    /\ iter = NoIter
    /\ raised = 0
    /\ saved = 0
    /\ save_result = "none"
    /\ returned = NotReturned

\* line 190: tags = get_tag_from_model(categories, title, feedback_comment)
Classify ==
    /\ pc = "classify"
    /\ \E response \in AnswerResponses(chat_model) :
           LET g == get_tag_from_model(chat_model, response)
           IN iter' = [NoIter EXCEPT !.error = g.error, !.invoked = g.invoked,
                                     !.delimited = HasTagPair(ResponseText(response)),
                                     !.tags = g.tags, !.done = TRUE]
    /\ pc' = "classified"
    /\ UNCHANGED <<pp, label_correction, mu, pn, chat_model, category_table, customer_feedback, feedback_tags, next_id,
                   tx, tx_aborted, event, categories, sub_status, data, idx, raised,
                   saved, save_result, returned>>

NextClassify == Classify

SpecClassify == InitClassify /\ [][NextClassify]_vars

\* --------------------------------------------------- prepare_notification
\* ERROR_THRESHOLD of the function: 0.2 when unset and as deployed, or
\* another ratio set by the operator.  A ratio is kept as num / den.
ERROR_THRESHOLD == [num |-> 2, den |-> 10]
Thresholds == {ERROR_THRESHOLD, [num |-> 1, den |-> 10], [num |-> 1, den |-> 2]}

\* event["Result"]: the aggregated summary of post_processing, or the Error
\* and Cause of a failed state of the workflow.
NotificationEvents ==
    {[kind |-> "summary", total |-> t, success |-> t - f, failure |-> f] :
        <<t, f>> \in {tf \in (0..MaxTotal) \X (0..MaxTotal) : tf[2] <= tf[1]}}
    \cup {[kind |-> "error", cause |-> c] : c \in {"ValueError", "States.Timeout"}}

\* line 98-99: float(failure / total) <= threshold.  Both sides are the
\* doubles nearest to the ratios, and two different ratios of counts this
\* small never round to the same double, so the comparison is that of the
\* ratios themselves.
RatioWithin(failure, total, threshold) ==
    failure * threshold.den <= threshold.num * total

\* Variant that flags a ratio equal to the threshold as failed.
prepare_notification_strict(ev, threshold) ==
    IF ev.kind = "error" THEN
        [kind |-> "dict", state |-> FALSE,
         message |-> [kind |-> "error", cause |-> ev.cause],
         subject |-> "Task failed for execution"]
    ELSE IF ev.total = 0 THEN
        [kind |-> "raised", error |-> "ZeroDivisionError"]
    ELSE
        LET state == ev.failure * threshold.den < threshold.num * ev.total
        IN [kind |-> "dict", state |-> state,
            message |-> [kind |-> "statistics", total |-> ev.total,
                         success |-> ev.success, failure |-> ev.failure,
                         hint |-> ~state],
            subject |-> IF ~state THEN "Task failed for execution"
                                  ELSE "Task Done for execution"]

\* lines 77-122: what lambda_handler returns, or the exception that leaves it
prepare_notification(ev, threshold) ==
    IF ev.kind = "error" THEN
        [kind |-> "dict", state |-> FALSE,
         message |-> [kind |-> "error", cause |-> ev.cause],
         subject |-> "Task failed for execution"]
    ELSE IF ev.total = 0 THEN
        [kind |-> "raised", error |-> "ZeroDivisionError"]
    ELSE
        LET state == RatioWithin(ev.failure, ev.total, threshold)
        IN [kind |-> "dict", state |-> state,
            message |-> [kind |-> "statistics", total |-> ev.total,
                         success |-> ev.success, failure |-> ev.failure,
                         hint |-> ~state],
            subject |-> IF ~state THEN "Task failed for execution"
                                  ELSE "Task Done for execution"]

\* The batch handler is not running.
HandlerOff ==
    /\ chat_model = "anthropic.claude-3-sonnet-20240229-v1:0"
    /\ customer_feedback = InitFeedback
    /\ feedback_tags = InitTags
    /\ next_id = 2
    /\ tx = NoTx
    /\ tx_aborted = FALSE
    /\ event = [Items |-> <<>>, ExecutionName |-> "exec-1"]
    /\ pc = "off"
    /\ categories = <<>>
    /\ sub_status = [total |-> 0, success |-> 0, failure |-> 0]
    /\ data = <<>>
    /\ idx = 0
    /\ iter = NoIter
    /\ raised = 0
    /\ saved = 0
    /\ save_result = "none"
    /\ returned = NotReturned

InitNotify ==
    /\ HandlerOff
    /\ category_table \in InitCategoryTables
    /\ mu = NoUploads
    /\ pp = NoPost
    /\ label_correction = {}
    /\ pn \in [event : NotificationEvents, threshold : Thresholds,
                result : {[kind |-> "none"]}]

\* One invocation of prepare_notification's lambda_handler
Notify ==
    /\ pn.result.kind = "none"
    /\ pn' = [pn EXCEPT !.result = prepare_notification(pn.event, pn.threshold)]
    /\ UNCHANGED <<pp, label_correction, mu, chat_model, category_table, customer_feedback, feedback_tags, next_id,
                   tx, tx_aborted, event, pc, categories, sub_status, data, idx, iter,
                   raised, saved, save_result, returned>>

NextNotify == Notify

SpecNotify == InitNotify /\ [][NextNotify]_vars

\* ------------------------------------------------- the Lambda time budget
\* The host stops the function when its timeout (900 s) elapses, wherever
\* the handler is; the connection is dropped and the database rolls back
\* the transaction that was open.
Abandon ==
    /\ pc \in {"start", "loop", "body", "save", "commit", "exit"}
    /\ pc' = "abandoned"
    /\ tx' = NoTx
    /\ tx_aborted' = FALSE
    /\ UNCHANGED <<pp, label_correction, mu, pn, chat_model, category_table, customer_feedback, feedback_tags, next_id,
                   event, categories, sub_status, data, idx, iter, raised, saved,
                   save_result, returned>>

NextTimeout == Next \/ Abandon

SpecTimeout == Init /\ [][NextTimeout]_vars

\* ------------------------------------------ mass_update: category upload
\* update_customer_feedback_category runs in a transaction of its own
\* (PostgreSQL's default READ COMMITTED): every statement sees the rows
\* committed so far and the writes of its own transaction, never the
\* uncommitted writes of another upload.  An upload is one invocation of
\* mass_update's lambda_handler, a record
\*   file       the object that triggered it
\*   json       the values of json_data, in file order
\*   rows       the rows of df handed to update_customer_feedback
\*   pc         its position: select, mark, find, write, commit, done, failed
\*   i          index in json of the category of the current iteration
\*   to_delete  categories_to_delete
\*   found      what fetchone() gave: none, deleted or active
\*   upd        its uncommitted updates of deleted, by row id
\*   ins        its uncommitted inserted rows
\*   sent       the notifications it has published
UploadNames == {Shipping, Retired, Weird}
JsonData == SeqsUpTo(UploadNames, MaxJson) \ {<<>>}
NoUpd == [id \in {} |-> FALSE]
Values(json) == {json[k] : k \in 1..Len(json)}

\* The rows a statement of upload p sees
VisibleRows(p) ==
    LET P == mu.procs[p]
    IN [k \in 1..Len(category_table) |->
            IF category_table[k].id \in DOMAIN P.upd
            THEN [category_table[k] EXCEPT !.deleted = P.upd[category_table[k].id]]
            ELSE category_table[k]] \o P.ins

RowIds(rows, names) ==
    {rows[k].id : k \in {j \in 1..Len(rows) : rows[j].category_name \in names}}

\* A row lock held by another open transaction makes an UPDATE wait
LockedByOther(p, ids) ==
    \E q \in 1..Len(mu.procs) :
        /\ q # p
        /\ mu.procs[q].pc \notin {"done", "failed"}
        /\ DOMAIN mu.procs[q].upd \cap ids # {}

SetDeleted(upd, ids, value) ==
    [id \in DOMAIN upd \cup ids |-> IF id \in ids THEN value ELSE upd[id]]

\* fetchone() of SELECT deleted ... WHERE category_name = name
FetchDeleted(rows, name) ==
    LET hits == {k \in 1..Len(rows) : rows[k].category_name = name}
    IN IF hits = {} THEN "none"
       ELSE LET first == CHOOSE k \in hits : \A j \in hits : k <= j
            IN IF rows[first].deleted THEN "deleted" ELSE "active"

\* Variant that reports every outcome as a success.
send_notification_message_success(status, message) ==
    [subject |-> "Success", message |-> message]

\* lines 193-205: the subject and the text handed to sns publish
send_notification_message(status, message) ==
    [subject |-> IF status THEN "Success" ELSE "Failure", message |-> message]

\* A category file: object size above 0, key ending in .json, valid JSON
JsonFile(json) == [size |-> 1, ext |-> "json", valid |-> TRUE, json |-> json]

\* The invocation as the dispatch of lines 127-159 leaves it
NewUpload(file, at, json, rows) ==
    [file |-> file, json |-> json, rows |-> rows, pc |-> at, i |-> 1, to_delete |-> {},
     found |-> "unset", upd |-> NoUpd, ins |-> <<>>, sent |-> <<>>]

\* Variant that marks nothing as deleted.
CategoriesToDelete_none(rows, json) == {}

\* lines 237-245: SELECT category_name ... WHERE category_name NOT IN
\* (values of the file) AND deleted = False
CategoriesToDelete(rows, json) ==
    {rows[k].category_name :
        k \in {j \in 1..Len(rows) :
                  ~rows[j].deleted /\ rows[j].category_name \notin Values(json)}}

\* The uploads that have begun
Uploads == 1..Len(mu.procs)

UploadUnchanged ==
    UNCHANGED <<pp, label_correction, pn, chat_model, customer_feedback, feedback_tags,
                next_id, tx, tx_aborted, event, pc, categories, sub_status, data, idx, iter, raised, saved,
                save_result, returned>>

\* mass_update's lambda_handler received a category file
StartUpload ==
    /\ Len(mu.procs) < MaxUploads
    /\ \E json \in JsonData :
           mu' = [mu EXCEPT !.procs = Append(@, NewUpload(JsonFile(json), "select", json, <<>>))]
    /\ category_table' = category_table
    /\ UploadUnchanged

\* lines 237-245: the categories that are active and not in the file
SelectToDelete ==
    \E p \in Uploads :
        /\ mu.procs[p].pc = "select"
        /\ LET names == CategoriesToDelete(VisibleRows(p), mu.procs[p].json)
           IN mu' = [mu EXCEPT !.procs[p].to_delete = names,
                               !.procs[p].pc = IF names = {} THEN "find" ELSE "mark"]
        /\ category_table' = category_table
        /\ UploadUnchanged

\* lines 248-261: UPDATE ... SET deleted = True WHERE category_name IN ...
MarkDeleted ==
    \E p \in Uploads :
        /\ mu.procs[p].pc = "mark"
        /\ LET ids == RowIds(VisibleRows(p), mu.procs[p].to_delete)
           IN /\ ~LockedByOther(p, ids)
              /\ mu' = [mu EXCEPT !.procs[p].upd = SetDeleted(@, ids, TRUE),
                                  !.procs[p].pc = "find"]
        /\ category_table' = category_table
        /\ UploadUnchanged

\* lines 263-267: the next category of the file; is there a row for it?
FindCategory ==
    \E p \in Uploads :
        /\ mu.procs[p].pc = "find"
        /\ LET P == mu.procs[p]
           IN mu' = [mu EXCEPT !.procs[p].found = FetchDeleted(VisibleRows(p), P.json[P.i]),
                               !.procs[p].pc = "write"]
        /\ category_table' = category_table
        /\ UploadUnchanged

\* lines 269-292: restore the deleted category, or insert the new one
WriteCategory ==
    \E p \in Uploads :
        /\ mu.procs[p].pc = "write"
        /\ LET P == mu.procs[p]
               category == P.json[P.i]
               after == IF P.i + 1 > Len(P.json) THEN "commit" ELSE "find"
           IN IF P.found = "active" THEN
                  mu' = [mu EXCEPT !.procs[p].i = @ + 1, !.procs[p].pc = after]
              ELSE IF P.found = "deleted" THEN
                  LET ids == RowIds(VisibleRows(p), {category})
                  IN /\ ~LockedByOther(p, ids)
                     /\ mu' = [mu EXCEPT !.procs[p].upd = SetDeleted(@, ids, FALSE),
                                         !.procs[p].i = @ + 1, !.procs[p].pc = after]
              ELSE
                  mu' = [mu EXCEPT !.procs[p].ins =
                                       Append(@, [id |-> mu.next_id, category_name |-> category,
                                                  deleted |-> FALSE]),
                                   !.procs[p].i = @ + 1, !.procs[p].pc = after,
                                   !.next_id = @ + 1]
        /\ category_table' = category_table
        /\ UploadUnchanged

\* line 284: get_embedding_from_text raises; the connection's with block
\* rolls the transaction back, the exception leaves the function and
\* lambda_handler reports it (lines 163-165)
InsertFails ==
    \E p \in Uploads :
        /\ mu.procs[p].pc = "write"
        /\ mu.procs[p].found = "none"
        /\ mu' = [mu EXCEPT !.procs[p].upd = NoUpd, !.procs[p].ins = <<>>,
                            !.procs[p].pc = "failed",
                            !.procs[p].sent =
                                Append(@, send_notification_message(FALSE, "embedding error"))]
        /\ category_table' = category_table
        /\ UploadUnchanged

\* line 294: rds_conn.commit(); lambda_handler reports the success (line 161)
CommitUpload ==
    \E p \in Uploads :
        /\ mu.procs[p].pc = "commit"
        /\ category_table' = VisibleRows(p)
        /\ mu' = [mu EXCEPT !.procs[p].upd = NoUpd, !.procs[p].ins = <<>>,
                            !.procs[p].pc = "done",
                            !.procs[p].sent =
                                Append(@, send_notification_message(TRUE, "items got inserted"))]
        /\ UploadUnchanged

\* The table as init_db_script left it; no upload has begun.
InitCategory ==
    /\ HandlerOff
    /\ category_table \in InitCategoryTables
    /\ mu = [NoUploads EXCEPT !.next_id = Len(category_table) + 1]
    /\ pn = NoNotification
    /\ pp = NoPost
    /\ label_correction = {}

NextCategory ==
    \/ StartUpload
    \/ SelectToDelete
    \/ MarkDeleted
    \/ FindCategory
    \/ WriteCategory
    \/ InsertFails
    \/ CommitUpload

SpecCategory == InitCategory /\ [][NextCategory]_vars

\* -------------------------------------------------------- post_processing
\* event["MapData"]["mapOutput"]: one summary for every batch of the map
BatchSummaries ==
    {[total |-> t, success |-> sc, failure |-> f] :
        <<t, sc, f>> \in {x \in (0..MaxCount) \X (0..MaxCount) \X (0..MaxCount) :
                             x[2] <= x[1] /\ x[3] <= x[1]}}
PostEvents ==
    [kind : {"event"}, mapOutput : SeqsUpTo(BatchSummaries, MaxBatches),
     ExecutionName : {"exec-0", "exec-1", ""}]

\* Variant that leaves the first summary out of the sum.
SumTotal_skip_first(list) ==
    LET S[k \in 0..Len(list)] == IF k <= 1 THEN 0 ELSE S[k - 1] + list[k].total
    IN S[Len(list)]

\* lines 79-81: sum(item[...] for item in map_data["mapOutput"])
SumTotal(list) ==
    LET S[k \in 0..Len(list)] == IF k = 0 THEN 0 ELSE S[k - 1] + list[k].total
    IN S[Len(list)]
SumSuccess(list) ==
    LET S[k \in 0..Len(list)] == IF k = 0 THEN 0 ELSE S[k - 1] + list[k].success
    IN S[Len(list)]
SumFailure(list) ==
    LET S[k \in 0..Len(list)] == IF k = 0 THEN 0 ELSE S[k - 1] + list[k].failure
    IN S[Len(list)]

\* lines 92-133: the rows of the execution grouped by label_llm, a column
\* that no INSERT of the workflow fills; [] when the query raised
get_top_three_categories(execution_id, db_ok) ==
    LET n == Cardinality({f \in customer_feedback : f.execution_id = execution_id})
    IN IF db_ok /\ n > 0 THEN <<[label_llm |-> "NULL", count |-> n]>> ELSE <<>>

\* lines 71-89: what lambda_handler returns, or the exception that leaves it
post_processing(ev, db_ok) ==
    IF ev.ExecutionName = "" THEN [kind |-> "raised", error |-> "ValueError"]
    ELSE [kind |-> "dict",
          total |-> SumTotal(ev.mapOutput),
          success |-> SumSuccess(ev.mapOutput),
          failure |-> SumFailure(ev.mapOutput),
          message |-> "",
          categories |-> get_top_three_categories(ev.ExecutionName, db_ok)]

InitPost ==
    /\ HandlerOff
    /\ category_table \in InitCategoryTables
    /\ mu = NoUploads
    /\ pn = NoNotification
    /\ label_correction = {}
    /\ pp \in [event : PostEvents, result : {[kind |-> "none"]}]

\* One invocation of post_processing's lambda_handler
PostProcess ==
    /\ pp.result.kind = "none"
    /\ \E db_ok \in BOOLEAN :
           pp' = [pp EXCEPT !.result = post_processing(pp.event, db_ok)]
    /\ UNCHANGED <<label_correction, mu, pn, chat_model, category_table, customer_feedback,
                   feedback_tags, next_id, tx, tx_aborted, event, pc, categories,
                   sub_status, data, idx, iter, raised, saved, save_result, returned>>

NextPost == PostProcess

SpecPost == InitPost /\ [][NextPost]_vars

\* ------------------------------------- mass_update: one invocation alone
\* The feedback stored by earlier executions: two feedbacks with their tags,
\* the second already corrected once.
StoredFeedback == {[id |-> 1, execution_id |-> "exec-0", ref_id |-> 1],
                   [id |-> 2, execution_id |-> "exec-0", ref_id |-> 2]}
StoredTags == {[feedback_id |-> 1, tag |-> Shipping, n |-> 1],
               [feedback_id |-> 2, tag |-> Shipping, n |-> 1],
               [feedback_id |-> 2, tag |-> Retired, n |-> 2]}
StoredLabels == {[id |-> 2, value |-> Shipping]}

\* Rows of a correction file: id and label_correction, which may be an
\* empty cell; the ids are those of stored feedbacks.
FeedbackIds == {f.id : f \in StoredFeedback}
CorrectionLabels == {<<"S", "h", ",", " ", "W", "e">>, Retired, EmptyStr}
CsvRows == SeqsUpTo([id : FeedbackIds, label_correction : CorrectionLabels], MaxRows)

\* The objects that can land in the update bucket
UploadedFiles ==
    {[size |-> 0, ext |-> e] : e \in {"csv", "json"}}
        \cup {[size |-> 1, ext |-> "txt"]}
        \cup {[size |-> 1, ext |-> "json", valid |-> FALSE]}
        \cup {JsonFile(j) : j \in JsonData}
        \cup {[size |-> 1, ext |-> "csv", columns |-> {"id"}]}
        \cup {[size |-> 1, ext |-> "csv", columns |-> {"id", "label_correction"}, rows |-> r] :
                  r \in CsvRows}

\* lines 148-152: the rows whose label_correction is empty are dropped
DropEmpty(rows) == SelectSeq(rows, LAMBDA r : r.label_correction # EmptyStr)

\* The exception of lines 128-159 is caught at 163 and reported
Rejected(file, text) ==
    [NewUpload(file, "failed", <<>>, <<>>) EXCEPT
        !.sent = <<send_notification_message(FALSE, text)>>]

\* lines 127-159: the checks of the file and the choice of the update
Dispatch(file) ==
    IF file.size = 0 THEN Rejected(file, "File size shall be bigger than 0")
    ELSE IF file.ext = "csv" THEN
        IF ~({"id", "label_correction"} \subseteq file.columns)
        THEN Rejected(file, "DataFrame is missing the following columns")
        ELSE NewUpload(file, "csv", <<>>, DropEmpty(file.rows))
    ELSE IF file.ext = "json" THEN
        IF ~file.valid THEN Rejected(file, "Invalid json file")
        ELSE NewUpload(file, "select", file.json, <<>>)
    ELSE Rejected(file, "Invalid file format")

\* line 340: [tag.strip() for tag in row['label_correction'].split(',')]
StripEach(list) == [k \in 1..Len(list) |-> Strip(list[k])]
CorrectionTags(label) == StripEach(Split(label))

\* lines 337-342: insert_values, in the order of the rows of df
RECURSIVE InsertValues(_)
InsertValues(rows) ==
    IF rows = <<>> THEN <<>>
    ELSE LET tags == CorrectionTags(Head(rows).label_correction)
         IN [k \in 1..Len(tags) |-> [feedback_id |-> Head(rows).id, tag |-> tags[k]]]
                \o InsertValues(Tail(rows))

\* lines 346-353: one UPDATE for every row of df, in order
RECURSIVE UpdateLabels(_, _)
UpdateLabels(rows, labels) ==
    IF rows = <<>> THEN labels
    ELSE LET r == Head(rows)
         IN UpdateLabels(Tail(rows),
                IF \E f \in customer_feedback : f.id = r.id
                THEN {l \in labels : l.id # r.id}
                         \cup {[id |-> r.id, value |-> r.label_correction]}
                ELSE labels)

\* lines 324-358: the tables as the committed transaction leaves them
update_customer_feedback(rows, tags, labels) ==
    LET ids == {rows[k].id : k \in 1..Len(rows)}
        iv == InsertValues(rows)
    IN [feedback_tags |->
            {t \in tags : t.feedback_id \notin ids}
                \cup {[feedback_id |-> iv[k].feedback_id, tag |-> iv[k].tag, n |-> k] :
                          k \in 1..Len(iv)},
        label_correction |-> UpdateLabels(rows, labels)]

InitMassUpdate ==
    /\ chat_model = "anthropic.claude-3-sonnet-20240229-v1:0"
    /\ category_table \in InitCategoryTables
    /\ customer_feedback = StoredFeedback
    /\ feedback_tags = StoredTags
    /\ label_correction = StoredLabels
    /\ next_id = 3
    /\ tx = NoTx
    /\ tx_aborted = FALSE
    /\ event = [Items |-> <<>>, ExecutionName |-> "exec-1"]
    /\ pc = "off"
    /\ categories = <<>>
    /\ sub_status = [total |-> 0, success |-> 0, failure |-> 0]
    /\ data = <<>>
    /\ idx = 0
    /\ iter = NoIter
    /\ raised = 0
    /\ saved = 0
    /\ save_result = "none"
    /\ returned = NotReturned
    /\ mu = [NoUploads EXCEPT !.next_id = Len(category_table) + 1]
    /\ pn = NoNotification
    /\ pp = NoPost

\* lines 127-159: a file arrives and lambda_handler starts on it
ReceiveFile ==
    /\ mu.procs = <<>>
    /\ \E file \in UploadedFiles : mu' = [mu EXCEPT !.procs = <<Dispatch(file)>>]
    /\ category_table' = category_table
    /\ UploadUnchanged

\* lines 154 and 161: update_customer_feedback commits and the success is
\* reported
UpdateFeedback ==
    \E p \in Uploads :
        /\ mu.procs[p].pc = "csv"
        /\ mu.procs[p].rows # <<>>
        /\ LET r == update_customer_feedback(mu.procs[p].rows, feedback_tags, label_correction)
           IN /\ feedback_tags' = r.feedback_tags
              /\ label_correction' = r.label_correction
        /\ mu' = [mu EXCEPT !.procs[p].pc = "done",
                            !.procs[p].sent =
                                Append(@, send_notification_message(TRUE, "feedback records updated"))]
        /\ UNCHANGED <<pp, pn, chat_model, category_table, customer_feedback, next_id, tx,
                       tx_aborted, event, pc, categories, sub_status, data, idx, iter,
                       raised, saved, save_result, returned>>

\* A statement of update_customer_feedback raises (with no row left in df
\* the DELETE ... IN () is itself malformed): the with block rolls back and
\* lambda_handler reports the failure (lines 163-165)
UpdateFeedbackFails ==
    \E p \in Uploads :
        /\ mu.procs[p].pc = "csv"
        /\ mu' = [mu EXCEPT !.procs[p].pc = "failed",
                            !.procs[p].sent =
                                Append(@, send_notification_message(FALSE, "database error"))]
        /\ category_table' = category_table
        /\ UploadUnchanged

NextMassUpdate ==
    \/ ReceiveFile
    \/ SelectToDelete
    \/ MarkDeleted
    \/ FindCategory
    \/ WriteCategory
    \/ InsertFails
    \/ CommitUpload
    \/ UpdateFeedback
    \/ UpdateFeedbackFails

SpecMassUpdate == InitMassUpdate /\ [][NextMassUpdate]_vars

\* ------------------------------- a category upload during a running batch
\* The batch handler reads customer_feedback_category only in committed
\* states, so a concurrent upload is seen by it as one step: its commit.
\* lines 263-292 applied to the rows, from entry i of the file on
RECURSIVE ApplyCategories(_, _, _, _)
ApplyCategories(rows, json, i, next) ==
    IF i > Len(json) THEN rows
    ELSE LET found == FetchDeleted(rows, json[i])
         IN IF found = "active" THEN ApplyCategories(rows, json, i + 1, next)
            ELSE IF found = "deleted" THEN
                ApplyCategories([k \in 1..Len(rows) |->
                                    IF rows[k].category_name = json[i]
                                    THEN [rows[k] EXCEPT !.deleted = FALSE] ELSE rows[k]],
                                json, i + 1, next)
            ELSE ApplyCategories(Append(rows, [id |-> next, category_name |-> json[i],
                                               deleted |-> FALSE]),
                                 json, i + 1, next + 1)

\* lines 237-294: the table as update_customer_feedback_category commits it
CommittedUpload(rows, json, next) ==
    LET names == CategoriesToDelete(rows, json)
        marked == [k \in 1..Len(rows) |->
                      IF rows[k].category_name \in names
                      THEN [rows[k] EXCEPT !.deleted = TRUE] ELSE rows[k]]
    IN ApplyCategories(marked, json, 1, next)

\* A batch of valid items under the deployed model, and no upload yet
InitBatchUpload ==
    /\ chat_model = "anthropic.claude-3-sonnet-20240229-v1:0"
    /\ category_table = <<[id |-> 1, category_name |-> Shipping, deleted |-> FALSE],
                          [id |-> 2, category_name |-> Retired, deleted |-> TRUE]>>
    /\ customer_feedback = InitFeedback
    /\ feedback_tags = InitTags
    /\ label_correction = {}
    /\ next_id = 2
    /\ tx = NoTx
    /\ tx_aborted = FALSE
    /\ event \in [Items : SeqsUpTo({[title |-> Str(<<"t">>), feedback |-> Str(FeedbackText)]},
                                    MaxItems),
                   ExecutionName : {"exec-1"}]
    /\ pc = "start"
    /\ categories = <<>>
    /\ sub_status = [total |-> 0, success |-> 0, failure |-> 0]
    /\ data = <<>>
    /\ idx = 0
    /\ iter = NoIter
    /\ raised = 0
    /\ saved = 0
    /\ save_result = "none"
    /\ returned = NotReturned
    /\ mu = [NoUploads EXCEPT !.next_id = Len(category_table) + 1]
    /\ pn = NoNotification
    /\ pp = NoPost

\* The files of the upload: one file for each set of names. The table an
\* upload commits has one row per name whatever the order and the
\* repetitions of the values of the file (lines 263-272).
DistinctJson ==
    {CHOOSE j \in JsonData : Values(j) = S /\ Len(j) = Cardinality(S) :
        S \in {T \in SUBSET UploadNames : T # {} /\ Cardinality(T) <= MaxJson}}

\* A category upload of mass_update commits while the batch handler runs
UploadCommits ==
    /\ mu.procs = <<>>
    /\ pc \in {"loop", "body"}
    /\ \E json \in DistinctJson :
           LET rows == CommittedUpload(category_table, json, mu.next_id)
           IN /\ category_table' = rows
              /\ mu' = [procs |-> <<[NewUpload(JsonFile(json), "done", json, <<>>) EXCEPT
                                        !.i = Len(json) + 1,
                                        !.sent = <<send_notification_message(TRUE,
                                                       "items got inserted")>>]>>,
                        next_id |-> mu.next_id + (Len(rows) - Len(category_table))]
    /\ UploadUnchanged

NextBatchUpload == Next \/ UploadCommits

SpecBatchUpload == InitBatchUpload /\ [][NextBatchUpload]_vars

\* ------------------------------------------------------------------ claims
\* The iteration for item idx - 1 has just ended.
IterDone == pc = "loop" /\ iter.done
IterOk == IterDone /\ iter.error = "" /\ Len(data) > 0
\* The feedback and tag rows this batch has committed.
BatchFeedback == {f \in customer_feedback : f.execution_id = event.ExecutionName}
BatchTags == {t \in feedback_tags : \E f \in BatchFeedback : f.id = t.feedback_id}
IsCategory(name) == InList(name, categories)
MatchedNames == {iter.lookups[k].outcome.category_name :
                    k \in {j \in 1..Len(iter.lookups) : iter.lookups[j].outcome.kind = "row"}}

\* C1: when a candidate tag is neither allowed nor "unknown" and the lookup
\* returns a matching category, that category name is among the tags queued
\* for the item.
C1_MatchedCategoryAccepted ==
    IterOk => \A name \in MatchedNames :
                  /\ InList(name, iter.updated_tags)
                  /\ InList(name, Split(data[Len(data)].tags))

\* C2: a completed invocation returns the summary with total, success and
\* failure as tracked for the batch.
C2_ReturnsSummary ==
    pc = "done" =>
        /\ returned.kind = "dict"
        /\ returned.total = sub_status.total
        /\ returned.success = sub_status.success
        /\ returned.failure = sub_status.failure

\* C3: if save_data_to_rds_in_batch fails, no feedback row and no tag row of
\* the batch remains committed.
C3_FailedSaveLeavesNoRows ==
    save_result = "False" => BatchFeedback = {} /\ BatchTags = {}

\* C4: total is the number of items; every finished iteration is counted once,
\* in success or in failure; failure counts the iterations that raised; with k
\* raising items and a successful save the counters end as n, n - k, k.
C4_BatchAccounting ==
    /\ pc # "start" => sub_status.total = Len(event.Items)
    /\ pc \in {"loop", "body"} =>
          /\ sub_status.success + sub_status.failure = idx - 1
          /\ sub_status.failure = raised
    /\ pc \in {"save", "commit"} =>
          /\ sub_status.success + sub_status.failure = sub_status.total
          /\ sub_status.failure = raised
    /\ (pc \in {"exit", "done"} /\ save_result # "False") =>
          /\ sub_status.success = Len(event.Items) - raised
          /\ sub_status.failure = raised
C4_Witness ==
    /\ pc = "done" /\ save_result = "True"
    /\ Len(event.Items) = 2 /\ raised = 1
    /\ sub_status = [total |-> 2, success |-> 1, failure |-> 1]

\* C5: a failed save sets success to 0 and failure to total; a successful or
\* skipped save leaves the counters of the item loop as they were.
C5_SaveFallback ==
    /\ pc \in {"save", "commit"} =>
          sub_status.success = Len(data) /\ sub_status.failure = raised
    /\ pc \in {"exit", "done"} =>
          IF save_result = "False"
          THEN sub_status.success = 0 /\ sub_status.failure = sub_status.total
          ELSE sub_status.success = Len(data) /\ sub_status.failure = raised
C5_Witness ==
    /\ pc = "done" /\ save_result = "False"
    /\ Len(data) = 1 /\ raised = 1
    /\ sub_status = [total |-> 2, success |-> 0, failure |-> 2]

\* C6: a candidate that is in the category list is accepted as it is, and an
\* item whose candidates are all allowed or "unknown" makes no lookup;
\* ["unknown"] alone queues the empty tag string.
C6_AllowedVerbatimNoLookup ==
    IterOk =>
        /\ \A i \in 1..Len(iter.tags) :
              IsCategory(iter.tags[i]) =>
                  /\ InList(iter.tags[i], iter.updated_tags)
                  /\ InList(iter.tags[i], Split(data[Len(data)].tags))
        /\ (\A i \in 1..Len(iter.tags) :
                IsCategory(iter.tags[i]) \/ iter.tags[i] = TAG_UNKNOWN)
              => iter.lookups = <<>>
        /\ (iter.tags = <<TAG_UNKNOWN>> /\ ~IsCategory(TAG_UNKNOWN))
              => data[Len(data)].tags = EmptyStr
C6_Witness ==
    /\ IterOk
    /\ categories = <<Shipping>>
    /\ iter.tags = <<Shipping, TAG_UNKNOWN>>
    /\ iter.lookups = <<>>
    /\ data[Len(data)].tags = Shipping

\* C7: a lookup that finds no row, or whose embedding call or query raises,
\* adds nothing to the item's tags, raises nothing into the item loop, and
\* the item is counted as a success.
C7_LookupFailureIsNoMatch ==
    (IterDone /\ \E k \in 1..Len(iter.lookups) : iter.lookups[k].outcome.kind # "row") =>
        /\ iter.error = ""
        /\ Len(data) > 0 /\ data[Len(data)].ref_id = idx - 1
        /\ sub_status.success = Len(data)
        /\ MatchedNames = {} =>
              Len(iter.updated_tags)
                  = Cardinality({i \in 1..Len(iter.tags) : IsCategory(iter.tags[i])})
C7_Witness ==
    /\ IterOk
    /\ iter.tags = <<Weird, Weird>>
    /\ Len(iter.lookups) = 2
    /\ iter.lookups[1].outcome.kind = "norow"
    /\ iter.lookups[2].outcome.kind = "db_error"
    /\ data[Len(data)].tags = EmptyStr

\* C8: every tag row the batch writes holds a name of the category list
\* loaded for the batch, also for an item with no accepted tag.
C8_PersistedTagsAreCategories ==
    \A t \in BatchTags : IsCategory(t.tag)

\* C9: unless "unknown" is itself a category, it is never queued, written
\* or committed as a tag.
C9_UnknownNeverPersisted ==
    (pc # "start" /\ ~IsCategory(TAG_UNKNOWN)) =>
        /\ \A t \in BatchTags \cup tx.tags : t.tag # TAG_UNKNOWN
        /\ \A d \in 1..Len(data) : ~InList(TAG_UNKNOWN, Split(data[d].tags))
C9_Witness ==
    /\ IterOk
    /\ ~IsCategory(TAG_UNKNOWN)
    /\ iter.tags = <<TAG_UNKNOWN, Weird>>
    /\ Len(iter.lookups) = 1
    /\ iter.lookups[1].outcome.kind = "norow"
    /\ data[Len(data)].tags = EmptyStr

\* C10: an item whose feedback is missing, empty or not a string fails with
\* the invalid-input error, is counted in failure, and the text-generation
\* service is not invoked for it.
InvalidFeedback(item) ==
    \/ "feedback" \notin DOMAIN item
    \/ item.feedback.type # "str"
    \/ item.feedback.val = <<>>
C10_InvalidInputNotSent ==
    (IterDone /\ InvalidFeedback(event.Items[idx - 1])) =>
        /\ iter.error = "ValueError"
        /\ iter.invoked = 0
        /\ sub_status.failure = raised /\ raised >= 1
        /\ \A d \in 1..Len(data) : data[d].ref_id # idx - 1
C10_Witness ==
    /\ IterDone
    /\ HasClaude3(chat_model)
    /\ "feedback" \in DOMAIN event.Items[idx - 1]
    /\ event.Items[idx - 1].feedback = NonStr
    /\ iter.error = "ValueError"
    /\ sub_status.failure = 1

\* The item of the iteration that has just ended.
LastItem == event.Items[idx - 1]
BadConfig == chat_model = "" \/ ~HasAnthropic(chat_model)
NotQueued(i) == \A d \in 1..Len(data) : data[d].ref_id # i

\* C11: when the model's answer lacks the <tag>...</tag> pair, the
\* classification of the item fails with an error and the item is counted
\* in failure.
C11_MissingDelimitersFail ==
    (IterDone /\ iter.invoked = 1 /\ ~iter.delimited) =>
        iter.error # "" /\ NotQueued(idx - 1)

\* C13: with CHAT_MODEL unset or outside the Anthropic family,
\* get_tag_from_model raises before any request is sent.
C13_BadConfigNoRequest ==
    /\ BadConfig => iter.invoked = 0
    /\ (IterDone /\ ~InvalidFeedback(LastItem) /\ BadConfig) =>
          iter.error = "ValueError" /\ iter.tags = <<>> /\ NotQueued(idx - 1)
C13_Witness ==
    /\ IterDone
    /\ chat_model = "amazon.titan-text-express-v1"
    /\ ~InvalidFeedback(LastItem)
    /\ iter.error = "ValueError"
    /\ iter.invoked = 0

\* C14: a configuration error aborts the batch when it is first detected;
\* no further item is attempted and counted as its own failure.
C14_ConfigErrorAbortsBatch ==
    BadConfig =>
        Cardinality({i \in 1..(idx - 1) : ~InvalidFeedback(event.Items[i])}) <= 1

\* C15: every item is attempted once, in input order; an item's error is
\* counted and the loop goes on to the next item; the text-generation
\* service is invoked at most once per item.
C15_EachItemOnceInOrder ==
    /\ iter.invoked <= 1
    /\ pc \in {"loop", "body"} =>
          /\ idx \in 1..(Len(event.Items) + 1)
          /\ Len(data) + raised = idx - 1
    /\ pc = "body" => idx <= Len(event.Items) /\ NotQueued(idx)
    /\ pc \in {"save", "commit", "exit", "done"} =>
          /\ idx = Len(event.Items) + 1
          /\ Len(data) + raised = Len(event.Items)
    /\ \A d \in 1..Len(data) :
          /\ data[d].ref_id \in 1..(idx - 1)
          /\ d > 1 => data[d - 1].ref_id < data[d].ref_id
C15_Witness ==
    /\ IterOk
    /\ idx = 3
    /\ raised = 1
    /\ iter.invoked = 1
    /\ Len(data) = 1 /\ data[1].ref_id = 2

\* C18: for an Anthropic model of the older interface, whose body carries a
\* completion string and no content list, the tag list is taken from the
\* completion string (the classification does not fail).
C18_LegacyCompletionParsed ==
    (IterDone /\ ~InvalidFeedback(LastItem) /\ "date" \notin DOMAIN LastItem
        /\ HasAnthropic(chat_model) /\ ~HasClaude3(chat_model) /\ iter.delimited) =>
        iter.error = "" /\ ~NotQueued(idx - 1)

\* C12: for a non-empty feedback body, a non-empty category list and any
\* answer of the model, get_tag_from_model returns at most 3 strings, each
\* trimmed and none empty.
C12_AtMostThreeTrimmedTags ==
    (pc = "classified" /\ iter.error = "" /\ categories # <<>>) =>
        /\ Len(iter.tags) <= 3
        /\ \A i \in 1..Len(iter.tags) :
              iter.tags[i] # EmptyStr /\ Strip(iter.tags[i]) = iter.tags[i]

\* C16: for a summary, prepare_notification flags the run as failed (state
\* false, subject "Task failed for execution ...") exactly when
\* failure / total exceeds ERROR_THRESHOLD, and as done (state true, subject
\* "Task Done for execution ...") when the ratio is at or below it; the
\* message reports total, success and failure.
C16_FailedIffRatioExceeds ==
    (pn.event.kind = "summary" /\ pn.result.kind = "dict") =>
        LET exceeds == pn.event.failure * pn.threshold.den
                           > pn.threshold.num * pn.event.total
        IN /\ pn.result.state = ~exceeds
           /\ exceeds => pn.result.subject = "Task failed for execution"
           /\ ~exceeds => pn.result.subject = "Task Done for execution"
           /\ pn.result.message.kind = "statistics"
           /\ pn.result.message.total = pn.event.total
           /\ pn.result.message.success = pn.event.success
           /\ pn.result.message.failure = pn.event.failure
C16_Witness ==
    /\ pn.event.kind = "summary"
    /\ pn.event.total = 5 /\ pn.event.failure = 1
    /\ pn.threshold = ERROR_THRESHOLD
    /\ pn.result.kind = "dict"
    /\ pn.result.state = TRUE
    /\ pn.result.subject = "Task Done for execution"

\* C17: when the host abandons the invocation, the batch has left no strict,
\* non-empty part of its feedback rows committed: either none of the queued
\* records is stored or all of them are.
C17_AbandonedBatchNotPartial ==
    pc = "abandoned" =>
        \/ BatchFeedback = {} /\ BatchTags = {}
        \/ Cardinality(BatchFeedback) = Len(data)

\* C20: no two rows of customer_feedback_category have the same
\* category_name, after initialisation and any category uploads, two
\* concurrent uploads included.
C20_CategoryNamesUnique ==
    \A a, b \in 1..Len(category_table) :
        a # b => category_table[a].category_name # category_table[b].category_name

\* True when the list names nothing twice.
NoRepeat(list) == \A a, b \in 1..Len(list) : a # b => list[a] # list[b]

\* C24: the accepted tags of an item name each category at most once, also
\* when the candidate list names an allowed category more than once; the
\* comma-joined string queued for saving has no repeated name.
C24_AcceptedTagsDistinct ==
    IterOk => NoRepeat(iter.updated_tags) /\ NoRepeat(Split(data[Len(data)].tags))

\* C25: every similarity lookup of an item searches for the first candidate
\* tag of the item, whatever the position of the tag that triggered it, and
\* one lookup is made for each candidate that is neither allowed nor
\* "unknown".
C25_LookupSearchesFirstTag ==
    (IterDone /\ iter.error = "") =>
        /\ \A k \in 1..Len(iter.lookups) : iter.lookups[k].text = iter.tags[1]
        /\ Len(iter.lookups) =
              Cardinality({i \in 1..Len(iter.tags) :
                              ~InList(iter.tags[i], categories) /\ iter.tags[i] # TAG_UNKNOWN})
C25_Witness ==
    /\ IterDone /\ iter.error = ""
    /\ Len(iter.tags) = 2
    /\ InList(iter.tags[1], categories)
    /\ iter.tags[2] = Weird
    /\ Len(iter.lookups) = 1
    /\ iter.lookups[1].text = iter.tags[1]

\* C28: when save_data_to_rds_in_batch succeeded, the batch has committed
\* one feedback row, carrying its execution name, for each item counted in
\* success and none for an item counted in failure; saving starts only after
\* the item loop has ended and only when a record was queued.
C28_OneRowPerSuccess ==
    /\ save_result = "True" =>
          /\ Cardinality(BatchFeedback) = sub_status.success
          /\ {f.ref_id : f \in BatchFeedback} = {data[d].ref_id : d \in 1..Len(data)}
          /\ sub_status.failure = raised
          /\ Cardinality(BatchFeedback) + raised = Len(event.Items)
    /\ pc \in {"save", "commit"} => idx = Len(event.Items) + 1 /\ Len(data) > 0
    /\ (tx # NoTx \/ save_result # "none" \/ BatchFeedback # {}) =>
          idx = Len(event.Items) + 1 /\ Len(data) > 0
C28_Witness ==
    /\ save_result = "True"
    /\ raised = 1
    /\ sub_status.success = 1
    /\ Cardinality(BatchFeedback) = 1

\* C29: prepare_notification returns a notification for every summary it
\* receives, a summary with total = 0 included.
C29_AlwaysReturnsNotification ==
    (pn.event.kind = "summary" /\ pn.result.kind # "none") => pn.result.kind = "dict"

\* The sum of the values of f over the summaries of a list.
RECURSIVE SumOver(_, _)
SumOver(list, field) ==
    IF list = <<>> THEN 0 ELSE Head(list)[field] + SumOver(Tail(list), field)

\* C27: post_processing returns total, success and failure equal to the
\* sums of these counters over the per-batch summaries; if success + failure
\* = total in every summary, it holds of the aggregated summary too.
C27_AggregatedSums ==
    pp.result.kind = "dict" =>
        /\ pp.result.total = SumOver(pp.event.mapOutput, "total")
        /\ pp.result.success = SumOver(pp.event.mapOutput, "success")
        /\ pp.result.failure = SumOver(pp.event.mapOutput, "failure")
        /\ (\A k \in 1..Len(pp.event.mapOutput) :
                pp.event.mapOutput[k].success + pp.event.mapOutput[k].failure
                    = pp.event.mapOutput[k].total)
              => pp.result.success + pp.result.failure = pp.result.total
C27_Witness ==
    /\ pp.result.kind = "dict"
    /\ Len(pp.event.mapOutput) = 2
    /\ pp.event.mapOutput[1] = [total |-> 2, success |-> 1, failure |-> 1]
    /\ pp.event.mapOutput[2] = [total |-> 1, success |-> 0, failure |-> 1]
    /\ pp.result.total = 3 /\ pp.result.success = 1 /\ pp.result.failure = 2

\* The one invocation of mass_update's lambda_handler, once it has begun.
TheUpload == mu.procs[1]
UploadEnded == Len(mu.procs) = 1 /\ TheUpload.pc \in {"done", "failed"}
JsonCommitted == Len(mu.procs) = 1 /\ TheUpload.pc = "done" /\ TheUpload.file.ext = "json"
CsvEnded == UploadEnded /\ TheUpload.file.ext = "csv" /\ TheUpload.file.size > 0
               /\ "rows" \in DOMAIN TheUpload.file
JsonNames == {TheUpload.json[k] : k \in 1..Len(TheUpload.json)}

\* C21: after update_customer_feedback_category has committed, a category
\* row is non-deleted exactly when its name is a value of the file, and
\* every value of the file has a row: the non-deleted names are the values
\* of json_data.
C21_ActiveNamesAreJsonValues ==
    JsonCommitted =>
        /\ \A k \in 1..Len(category_table) :
              category_table[k].deleted = (category_table[k].category_name \notin JsonNames)
        /\ \A name \in JsonNames :
              \E k \in 1..Len(category_table) : category_table[k].category_name = name
        /\ {category_table[k].category_name :
                k \in {j \in 1..Len(category_table) : ~category_table[j].deleted}} = JsonNames
C21_Witness ==
    /\ JsonCommitted
    /\ TheUpload.json = <<Retired, Weird>>
    /\ category_table = <<[id |-> 1, category_name |-> Shipping, deleted |-> TRUE],
                          [id |-> 2, category_name |-> Retired, deleted |-> FALSE],
                          [id |-> 3, category_name |-> Weird, deleted |-> FALSE]>>

TagSet(id) == {t \in feedback_tags : t.feedback_id = id}
TagsOf(id) ==
    LET ns == {t.n : t \in TagSet(id)}
        Nth[k \in 0..Cardinality(ns)] ==
            IF k = 0 THEN 0
            ELSE CHOOSE n \in ns : n > Nth[k - 1] /\ \A m \in ns : m > Nth[k - 1] => n <= m
    IN [k \in 1..Cardinality(ns) |->
            (CHOOSE t \in TagSet(id) : t.n = Nth[k]).tag]
LabelOf(labels, id) == {l.value : l \in {x \in labels : x.id = id}}
ListedIds == {TheUpload.rows[k].id : k \in 1..Len(TheUpload.rows)}

\* C30: after update_customer_feedback has committed, every feedback id of
\* the file has as tag rows exactly the trimmed comma-separated pieces of
\* its label_correction, and that value in its label_correction column; the
\* tag rows and label_correction of the other feedbacks are unchanged; when
\* a step raised, nothing is committed.
C30_CorrectionsApplied ==
    CsvEnded =>
        IF TheUpload.pc = "done"
        THEN /\ \A k \in 1..Len(TheUpload.rows) :
                  LET r == TheUpload.rows[k]
                  IN /\ TagsOf(r.id) = CorrectionTags(r.label_correction)
                     /\ LabelOf(label_correction, r.id) = {r.label_correction}
             /\ \A id \in FeedbackIds \ ListedIds :
                  /\ TagSet(id) = {t \in StoredTags : t.feedback_id = id}
                  /\ LabelOf(label_correction, id) = LabelOf(StoredLabels, id)
        ELSE feedback_tags = StoredTags /\ label_correction = StoredLabels

\* The names of the rows that are not deleted now.
ActiveNow == {category_table[k].category_name :
                 k \in {j \in 1..Len(category_table) : ~category_table[j].deleted}}

\* C26: the category list is read once, before the first item, and never
\* changes afterwards, neither by the handler nor by a category upload that
\* commits during the batch; every item is reconciled against that list.
C26_CategoriesReadOnce ==
    /\ [](pc = "start" => categories = <<>>)
    /\ [](IterOk => \A k \in 1..Len(iter.updated_tags) :
                        InList(iter.updated_tags[k], categories))
    /\ [][pc # "start" => categories' = categories]_vars
C26_Witness ==
    /\ IterOk
    /\ Len(mu.procs) = 1
    /\ Weird \in ActiveNow
    /\ ~InList(Weird, categories)
    /\ InList(Weird, iter.tags)
    /\ ~InList(Weird, iter.updated_tags)

====
